---- MODULE Spec2Model ----
(***************************************************************************)
(* gitasay (main.go): a command-line program that prints one verse of an   *)
(* embedded corpus, chosen at random or by -c/-v, with wrapped text.       *)
(*                                                                         *)
(* Strings are sequences of one-character strings, so that strings.Fields, *)
(* strings.Split, strings.TrimSpace and wrapText are computed on the       *)
(* characters, as the code does.                                           *)
(***************************************************************************)
EXTENDS Integers, Sequences, FiniteSets, TLC

VARIABLES
    text,        \* wrapText's argument (a string)
    wrapped,     \* wrapText(text)
    rewrapped,   \* wrapText(wrapText(text))
    wpc          \* "start" | "wrapped" | "rewrapped"

VARIABLES
    argv,               \* the command line
    translationSource,  \* *translationSource
    includeChapter,     \* *includeChapter
    chapterFlag,        \* *chapterFlag
    verseFlag,          \* *verseFlag
    data,               \* what gitaFS.ReadFile returned
    allSlokas,          \* the parsed corpus
    selectedSloka,      \* the verse to print
    stdout,             \* what was written to os.Stdout, one item per line
    stderr,             \* what was written to os.Stderr
    exitCode,           \* the process's exit code, -1 while it runs
    pc                  \* where main is

wvars == <<text, wrapped, rewrapped, wpc>>
mvars == <<argv, translationSource, includeChapter, chapterFlag, verseFlag,
           data, allSlokas, selectedSloka, stdout, stderr, exitCode, pc>>
vars  == <<wvars, mvars>>

(***************************************************************************)
(* Strings                                                                 *)
(***************************************************************************)
NL == "\n"
SP == " "

Rep(c, n) == [i \in 1..n |-> c]

\* unicode.IsSpace, on the characters the model uses
IsSpace(c) == c \in {SP, NL, "\t"}

\* the i-th smallest element of a set of positions
Nth(S, i) == CHOOSE p \in S : Cardinality({q \in S : q <= p}) = i

\* strings.Split(s, sep) for a one-character sep: the pieces between the seps
\* (one more piece than there are seps, empty pieces kept)
Split(s, sep) ==
    LET at    == {p \in 1..Len(s) : s[p] = sep}
        n     == Cardinality(at)
        cut(k) == IF k = 0 THEN 0 ELSE IF k = n + 1 THEN Len(s) + 1 ELSE Nth(at, k)
    IN  [k \in 1..(n + 1) |-> SubSeq(s, cut(k - 1) + 1, cut(k) - 1)]

\* the positions at which a maximal run of non-space characters begins, and ends
WordStarts(s) ==
    {p \in 1..Len(s) : ~IsSpace(s[p]) /\ (p = 1 \/ IsSpace(s[p - 1]))}
WordEnds(s) ==
    {p \in 1..Len(s) : ~IsSpace(s[p]) /\ (p = Len(s) \/ IsSpace(s[p + 1]))}

\* a plausible slip: strings.Split(text, " ") in place of strings.Fields(text)
FieldsSplitOnSpace(s) == Split(s, SP)

\* strings.Fields(s): the maximal runs of non-space characters, in order
Fields(s) ==
    LET starts == WordStarts(s)
        ends   == WordEnds(s)
    IN  [i \in 1..Cardinality(starts) |-> SubSeq(s, Nth(starts, i), Nth(ends, i))]

\* strings.TrimSpace(s)
TrimSpace(s) ==
    LET keep == {i \in 1..Len(s) : ~IsSpace(s[i])}
    IN  IF keep = {} THEN <<>>
        ELSE LET lo == CHOOSE i \in keep : \A j \in keep : i <= j
                 hi == CHOOSE i \in keep : \A j \in keep : j <= i
             IN  SubSeq(s, lo, hi)

\* strings.ContainsAny(s, chars)
ContainsAny(s, chars) == \E i \in 1..Len(s) : s[i] \in chars

\* strings.HasPrefix(s, c) for a one-character prefix
HasPrefix(s, c) == Len(s) > 0 /\ s[1] = c

\* utf8.RuneCountInString(s): every character of the model is one rune
RuneCount(s) == Len(s)

(***************************************************************************)
(* wrapText                                                                *)
(***************************************************************************)
displayWidth == 70

SentenceEnd == {".", "!", "?"}

\* a plausible slip: the separator space left out of the width test
OverflowsNoSeparator(current, wordLen) ==
    current + wordLen > displayWidth /\ current > 0

\* the width test before a word is written
Overflows(current, wordLen) ==
    current + wordLen + 1 > displayWidth /\ current > 0

\* the break forced after words[i]
ForcedBreak(words, i) ==
    /\ i < Len(words)
    /\ ContainsAny(words[i], SentenceEnd)
    /\ ~HasPrefix(words[i + 1], ")")
    /\ ~HasPrefix(words[i + 1], ",")

\* one iteration of the loop over words, from (result, current)
RECURSIVE WrapLoop(_, _, _, _)
WrapLoop(words, i, result, current) ==
    IF i > Len(words) THEN result
    ELSE LET word    == words[i]
             wordLen == RuneCount(word)
             brk     == Overflows(current, wordLen)
             r1      == IF brk THEN Append(result, NL) ELSE result
             c1      == IF brk THEN 0 ELSE current
             r2      == IF c1 > 0 THEN Append(r1, SP) ELSE r1
             c2      == IF c1 > 0 THEN c1 + 1 ELSE c1
             r3      == r2 \o word
             c3      == c2 + wordLen
             forced  == ForcedBreak(words, i)
         IN  WrapLoop(words, i + 1,
                      IF forced THEN Append(r3, NL) ELSE r3,
                      IF forced THEN 0 ELSE c3)

wrapText(s) == WrapLoop(Fields(s), 1, <<>>, 0)

(***************************************************************************)
(* The texts wrapText is applied to                                        *)
(***************************************************************************)
MaxWords == 3

Half == displayWidth \div 2

Vocabulary ==
    { <<"a">>,                       \* a plain word
      <<"b", ".">>,                  \* ends a sentence
      <<"c", "?", "d">>,             \* a question mark inside the word
      <<")", "e">>,                  \* begins with a closing parenthesis
      <<",">>,                       \* begins with a comma
      Rep("x", Half),                \* two of these and a space: 71
      Rep("y", Half - 1),            \* with Half and a space: exactly 70
      Rep("z", displayWidth),        \* as wide as the display
      Rep("w", displayWidth + 1) }   \* wider than the display

Separators == { <<SP>>, <<NL>>, <<SP, SP>> }
Padding    == { <<>>, <<SP>> }

RECURSIVE Join(_, _)
Join(ws, sep) ==
    IF ws = <<>> THEN <<>>
    ELSE IF Len(ws) = 1 THEN ws[1]
    ELSE ws[1] \o sep \o Join(Tail(ws), sep)

WordSeqs == UNION { [1..n -> Vocabulary] : n \in 0..MaxWords }

Example == <<"H","e","l","l","o",SP,"w","o","r","l","d",".",SP,"B","y","e","!">>

Texts ==
    { pad \o Join(ws, sep) \o pad :
        ws \in WordSeqs, sep \in Separators, pad \in Padding } \cup { Example }

(***************************************************************************)
(* The corpus: type Chapter, type Sloka, type AllSlokas                    *)
(***************************************************************************)
Siva    == "siva"
Purohit == "purohit"
Adi     == "adi"
San     == "san"
Tej     == "tej"
Chinmay == "chinmay"

\* the zero value of Sloka, which var selectedSloka holds before the selection
ZeroSloka ==
    [ ID |-> "", Chapter |-> 0, Verse |-> 0, Slok |-> <<>>, Transliteration |-> <<>>,
      Tej     |-> [Author |-> "", Ht |-> <<>>],
      Siva    |-> [Author |-> "", Et |-> <<>>, Ec |-> <<>>],
      Purohit |-> [Author |-> "", Et |-> <<>>],
      Chinmay |-> [Author |-> "", Hc |-> <<>>],
      San     |-> [Author |-> "", Et |-> <<>>],
      Adi     |-> [Author |-> "", Et |-> <<>>] ]

\* a verse whose six commentaries are all different and all have words
FullSloka(id, tag, c, v) ==
    [ ID |-> id, Chapter |-> c, Verse |-> v,
      Slok            |-> <<"k", tag, NL, SP, NL, "m">>,
      Transliteration |-> <<"u", tag, ".", SP, "v", ".">>,
      Tej     |-> [Author |-> "Swami Tejomayananda", Ht |-> <<"t", tag>>],
      Siva    |-> [Author |-> "Swami Sivananda",
                   Et |-> <<"s", tag, ".", SP, "x">>, Ec |-> <<"e", tag>>],
      Purohit |-> [Author |-> "Shri Purohit Swami", Et |-> <<"p", tag>>],
      Chinmay |-> [Author |-> "Swami Chinmayananda", Hc |-> <<"c", tag>>],
      San     |-> [Author |-> "Dr. S. Sankaranarayan", Et |-> <<"n", tag>>],
      Adi     |-> [Author |-> "Swami Adidevananda", Et |-> <<"d", tag>>] ]

\* the verses a corpus of the model is made of: 1.1, a second verse numbered
\* 1.1 (the key is not checked on loading) in which one commentary is empty,
\* one is a single space and one has no author, and 2.1
SlokaPool ==
    { FullSloka("BG1.1", "1", 1, 1),
      [ FullSloka("BG1.1b", "2", 1, 1) EXCEPT
            !.Siva.Et = <<>>, !.Purohit.Et = <<SP>>, !.Tej.Author = "" ],
      FullSloka("BG2.1", "3", 2, 1) }

\* the chapters: two entries numbered 1, one with a translation and no meaning,
\* one with a meaning and no translation; no entry is numbered 2
ChapterPool ==
    { [ ChapterNumber |-> 1, Name |-> "Arjuna Visada Yoga",
        Translation |-> "Arjuna's Dilemma", MeaningEn |-> <<>> ],
      [ ChapterNumber |-> 1, Name |-> "Prathama Adhyaya",
        Translation |-> "", MeaningEn |-> <<"g", ".", SP, "h">> ] }

MaxSlokas   == 2
MaxChapters == 2

SeqsUpTo(S, n) == UNION { [1..k -> S] : k \in 0..n }

\* what gita.json can hold: bytes that do not parse, or a corpus
MalformedBlob == [ wellFormed |-> FALSE, Chapters |-> <<>>, Slokas |-> <<>> ]
Blobs ==
    { MalformedBlob } \cup
    [ wellFormed : {TRUE},
      Chapters   : SeqsUpTo(ChapterPool, MaxChapters),
      Slokas     : SeqsUpTo(SlokaPool, MaxSlokas) ]

EmptyCorpus == [ Chapters |-> <<>>, Slokas |-> <<>> ]
NoData      == [ read |-> FALSE, err |-> FALSE, blob |-> MalformedBlob ]

(***************************************************************************)
(* The command line                                                        *)
(***************************************************************************)
\* the flags main defines
DefinedFlags == { "translation", "chapter-info", "c", "v" }

validSources == << Siva, Purohit, Adi, San, Tej, Chinmay >>

SourceArgs == { validSources[i] : i \in 1..Len(validSources) } \cup { "gandhi", "SIVA" }
IntArgs    == { -1, 0, 1, 2 }

DefaultArgv ==
    [ translation |-> "siva", chapterInfo |-> FALSE, c |-> 0, v |-> 0, other |-> {} ]

\* every setting of the four flags, and the command line "-list-translators"
Argvs ==
    [ translation : SourceArgs, chapterInfo : BOOLEAN, c : IntArgs, v : IntArgs,
      other : { {} } ]
    \cup { [ DefaultArgv EXCEPT !.other = { "list-translators" } ] }

(***************************************************************************)
(* Output: one item per line written. fmt.Println() and fmt.Println("")    *)
(* write the same bytes, so a blank line is a Line of the empty string.    *)
(***************************************************************************)
Item(k, n, m, a, s) == [ k |-> k, n |-> n, m |-> m, a |-> a, s |-> s ]

Line(s)               == Item("line", 0, 0, "", s)
Blank                 == Line(<<>>)
ChapterTitle(n, name) == Item("chapter-title", n, 0, name, <<>>)    \* bold
ChapterTranslation(a) == Item("chapter-translation", 0, 0, a, <<>>) \* "(a)"
Header(c, v)          == Item("header", c, v, "", <<>>)             \* bold
AuthorLine(a)         == Item("author", 0, 0, a, <<>>)              \* dim "(a)"
Message(k, n, m, a)   == Item(k, n, m, a, <<>>)

MeaningPrefix == <<"M", "e", "a", "n", "i", "n", "g", ":", SP>>

(***************************************************************************)
(* main                                                                    *)
(***************************************************************************)
Init ==
    /\ argv \in Argvs
    /\ translationSource = "siva"
    /\ includeChapter = FALSE
    /\ chapterFlag = 0
    /\ verseFlag = 0
    /\ data = NoData
    /\ allSlokas = EmptyCorpus
    /\ selectedSloka = ZeroSloka
    /\ stdout = <<>>
    /\ stderr = <<>>
    /\ exitCode = -1
    /\ pc = "parse"
    /\ text = <<>>
    /\ wrapped = <<>>
    /\ rewrapped = <<>>
    /\ wpc = "start"

\* os.Exit(code), or main returning (code 0)
Exit(code) ==
    /\ exitCode' = code
    /\ pc' = "exit"

\* flag.Parse(): a flag that was not defined is reported on os.Stderr and the
\* process exits with code 2 (flag.CommandLine is flag.ExitOnError)
ParseFlags ==
    /\ pc = "parse"
    /\ \/ /\ ~(argv.other \subseteq DefinedFlags)
          /\ stderr' = stderr \o
                 << Message("flag-provided-but-not-defined", 0, 0,
                            CHOOSE f \in argv.other : f \notin DefinedFlags),
                    Message("usage", 0, 0, "") >>
          /\ Exit(2)
          /\ UNCHANGED <<translationSource, includeChapter, chapterFlag, verseFlag>>
       \/ /\ argv.other \subseteq DefinedFlags
          /\ translationSource' = argv.translation
          /\ includeChapter' = argv.chapterInfo
          /\ chapterFlag' = argv.c
          /\ verseFlag' = argv.v
          /\ pc' = "validate"
          /\ UNCHANGED <<stderr, exitCode>>
    /\ UNCHANGED <<argv, data, allSlokas, selectedSloka, stdout, wvars>>

\* a plausible slip: the source is not checked
IsValidSourceUnchecked(source) == TRUE

\* the loop over validSources
IsValidSource(source) == \E i \in 1..Len(validSources) : source = validSources[i]

ValidateSource ==
    /\ pc = "validate"
    /\ \/ /\ ~IsValidSource(translationSource)
          /\ stdout' = stdout \o
                 << Message("invalid-translation-source", 0, 0, translationSource),
                    Message("valid-sources", 0, 0, "") >>
          /\ Exit(1)
       \/ /\ IsValidSource(translationSource)
          /\ pc' = "read"
          /\ UNCHANGED <<stdout, exitCode>>
    /\ UNCHANGED <<argv, translationSource, includeChapter, chapterFlag, verseFlag,
                   data, allSlokas, selectedSloka, stderr, wvars>>

\* gitaFS.ReadFile("gita.json")
ReadDataset ==
    /\ pc = "read"
    /\ \/ /\ data' = [ read |-> TRUE, err |-> TRUE, blob |-> MalformedBlob ]
          /\ stdout' = stdout \o << Message("error-reading-embedded-data", 0, 0, "") >>
          /\ Exit(1)
       \/ /\ \E b \in Blobs : data' = [ read |-> TRUE, err |-> FALSE, blob |-> b ]
          /\ pc' = "unmarshal"
          /\ UNCHANGED <<stdout, exitCode>>
    /\ UNCHANGED <<argv, translationSource, includeChapter, chapterFlag, verseFlag,
                   allSlokas, selectedSloka, stderr, wvars>>

\* json.Unmarshal(data, &allSlokas)
ParseJSON ==
    /\ pc = "unmarshal"
    /\ \/ /\ ~data.blob.wellFormed
          /\ stdout' = stdout \o << Message("error-parsing-json", 0, 0, "") >>
          /\ Exit(1)
          /\ UNCHANGED allSlokas
       \/ /\ data.blob.wellFormed
          /\ allSlokas' = [ Chapters |-> data.blob.Chapters, Slokas |-> data.blob.Slokas ]
          /\ pc' = "select"
          /\ UNCHANGED <<stdout, exitCode>>
    /\ UNCHANGED <<argv, translationSource, includeChapter, chapterFlag, verseFlag,
                   data, selectedSloka, stderr, wvars>>

\* a plausible slip: || in place of &&
ExactRequestedEither(c, v) == c > 0 \/ v > 0

\* "if specific verse requested"
ExactRequested(c, v) == c > 0 /\ v > 0

\* a plausible slip: the loop without its break, so that the last match stays
FindSlokaLast(slokas, c, v) ==
    LET hits == {i \in 1..Len(slokas) : slokas[i].Chapter = c /\ slokas[i].Verse = v}
    IN  IF hits = {} THEN 0 ELSE CHOOSE i \in hits : \A j \in hits : j <= i

\* the loop over allSlokas.Slokas: the index of the first match, 0 when not found
FindSloka(slokas, c, v) ==
    LET hits == {i \in 1..Len(slokas) : slokas[i].Chapter = c /\ slokas[i].Verse = v}
    IN  IF hits = {} THEN 0 ELSE CHOOSE i \in hits : \A j \in hits : i <= j

SelectExact ==
    /\ pc = "select"
    /\ ExactRequested(chapterFlag, verseFlag)
    /\ LET i == FindSloka(allSlokas.Slokas, chapterFlag, verseFlag)
       IN  \/ /\ i = 0
              /\ stdout' = stdout \o << Message("not-found", chapterFlag, verseFlag, "") >>
              /\ Exit(1)
              /\ UNCHANGED selectedSloka
           \/ /\ i # 0
              /\ selectedSloka' = allSlokas.Slokas[i]
              /\ pc' = "chapter"
              /\ UNCHANGED <<stdout, exitCode>>
    /\ UNCHANGED <<argv, translationSource, includeChapter, chapterFlag, verseFlag,
                   data, allSlokas, stderr, wvars>>

\* "pick random sloka": rand.Intn(n) is any of 0..n-1
SelectRandom ==
    /\ pc = "select"
    /\ ~ExactRequested(chapterFlag, verseFlag)
    /\ \/ /\ Len(allSlokas.Slokas) = 0
          /\ stdout' = stdout \o << Message("no-slokas-found", 0, 0, "") >>
          /\ Exit(1)
          /\ UNCHANGED selectedSloka
       \/ /\ Len(allSlokas.Slokas) # 0
          /\ \E r \in 0..(Len(allSlokas.Slokas) - 1) :
                 selectedSloka' = allSlokas.Slokas[r + 1]
          /\ pc' = "chapter"
          /\ UNCHANGED <<stdout, exitCode>>
    /\ UNCHANGED <<argv, translationSource, includeChapter, chapterFlag, verseFlag,
                   data, allSlokas, stderr, wvars>>

\* what is printed for one chapter: its title, its translation and its meaning
\* when it has them, and a blank line
ChapterLines(chapter) ==
    << ChapterTitle(chapter.ChapterNumber, chapter.Name) >>
    \o (IF chapter.Translation # "" THEN << ChapterTranslation(chapter.Translation) >>
        ELSE <<>>)
    \o (IF chapter.MeaningEn # <<>>
        THEN << Line(wrapText(MeaningPrefix \o chapter.MeaningEn)) >> ELSE <<>>)
    \o << Blank >>

\* a plausible slip: the blank line written after the loop, match or no match
ChapterBlockStrayBlank(chapters, n) ==
    LET hits == {i \in 1..Len(chapters) : chapters[i].ChapterNumber = n}
    IN  IF hits = {} THEN << Blank >>
        ELSE ChapterLines(chapters[CHOOSE i \in hits : \A j \in hits : i <= j])

\* the loop over allSlokas.Chapters, which stops at the first chapter numbered n
ChapterBlock(chapters, n) ==
    LET hits == {i \in 1..Len(chapters) : chapters[i].ChapterNumber = n}
    IN  IF hits = {} THEN <<>>
        ELSE ChapterLines(chapters[CHOOSE i \in hits : \A j \in hits : i <= j])

\* fmt.Println(), then "show chapter info if requested"
ShowChapterInfo ==
    /\ pc = "chapter"
    /\ stdout' = stdout \o << Blank >> \o
           (IF includeChapter
            THEN ChapterBlock(allSlokas.Chapters, selectedSloka.Chapter) ELSE <<>>)
    /\ pc' = "verse"
    /\ UNCHANGED <<argv, translationSource, includeChapter, chapterFlag, verseFlag,
                   data, allSlokas, selectedSloka, stderr, exitCode, wvars>>

\* the parts that are not blank, each trimmed, wrapped and printed
PrintedParts(parts) ==
    LET kept == SelectSeq(parts, LAMBDA l : TrimSpace(l) # <<>>)
    IN  [i \in 1..Len(kept) |-> Line(wrapText(TrimSpace(kept[i])))]

\* the header, the Sanskrit lines and the transliteration
VerseLines(sloka) ==
    << Header(sloka.Chapter, sloka.Verse), Blank >>
    \o PrintedParts(Split(sloka.Slok, NL)) \o << Blank >>
    \o PrintedParts(Split(sloka.Transliteration, ".")) \o << Blank >>

ShowVerse ==
    /\ pc = "verse"
    /\ stdout' = stdout \o VerseLines(selectedSloka)
    /\ pc' = "translation"
    /\ UNCHANGED <<argv, translationSource, includeChapter, chapterFlag, verseFlag,
                   data, allSlokas, selectedSloka, stderr, exitCode, wvars>>

\* a plausible slip: a case copied from the one above it with its author left
\* as it was
PickTranslationCopied(sloka, source) ==
    CASE source = Siva    -> [ text |-> sloka.Siva.Et,    author |-> sloka.Siva.Author ]
      [] source = Purohit -> [ text |-> sloka.Purohit.Et, author |-> sloka.Siva.Author ]
      [] source = Adi     -> [ text |-> sloka.Adi.Et,     author |-> sloka.Adi.Author ]
      [] source = San     -> [ text |-> sloka.San.Et,     author |-> sloka.San.Author ]
      [] source = Tej     -> [ text |-> sloka.Tej.Ht,     author |-> sloka.Tej.Author ]
      [] source = Chinmay -> [ text |-> sloka.Chinmay.Hc, author |-> sloka.Chinmay.Author ]
      [] OTHER            -> [ text |-> <<>>, author |-> "" ]

\* "pick translation text and author": the switch, which has no default
PickTranslation(sloka, source) ==
    CASE source = Siva    -> [ text |-> sloka.Siva.Et,    author |-> sloka.Siva.Author ]
      [] source = Purohit -> [ text |-> sloka.Purohit.Et, author |-> sloka.Purohit.Author ]
      [] source = Adi     -> [ text |-> sloka.Adi.Et,     author |-> sloka.Adi.Author ]
      [] source = San     -> [ text |-> sloka.San.Et,     author |-> sloka.San.Author ]
      [] source = Tej     -> [ text |-> sloka.Tej.Ht,     author |-> sloka.Tej.Author ]
      [] source = Chinmay -> [ text |-> sloka.Chinmay.Hc, author |-> sloka.Chinmay.Author ]
      [] OTHER            -> [ text |-> <<>>, author |-> "" ]

\* "print translation", and main returns
ShowTranslation ==
    /\ pc = "translation"
    /\ LET t == PickTranslation(selectedSloka, translationSource)
       IN  stdout' = stdout \o << Line(wrapText(t.text)), AuthorLine(t.author), Blank >>
    /\ Exit(0)
    /\ UNCHANGED <<argv, translationSource, includeChapter, chapterFlag, verseFlag,
                   data, allSlokas, selectedSloka, stderr, wvars>>

Next ==
    \/ ParseFlags
    \/ ValidateSource
    \/ ReadDataset
    \/ ParseJSON
    \/ SelectExact
    \/ SelectRandom
    \/ ShowChapterInfo
    \/ ShowVerse
    \/ ShowTranslation

Spec == Init /\ [][Next]_vars

(***************************************************************************)
(* wrapText applied to the texts, once and then to its own result          *)
(***************************************************************************)
WrapInit ==
    /\ text \in Texts
    /\ wrapped = <<>>
    /\ rewrapped = <<>>
    /\ wpc = "start"
    /\ argv = DefaultArgv
    /\ translationSource = "siva"
    /\ includeChapter = FALSE
    /\ chapterFlag = 0
    /\ verseFlag = 0
    /\ data = NoData
    /\ allSlokas = EmptyCorpus
    /\ selectedSloka = ZeroSloka
    /\ stdout = <<>>
    /\ stderr = <<>>
    /\ exitCode = -1
    /\ pc = "parse"

Wrap ==
    /\ wpc = "start"
    /\ wrapped' = wrapText(text)
    /\ wpc' = "wrapped"
    /\ UNCHANGED <<text, rewrapped, mvars>>

Rewrap ==
    /\ wpc = "wrapped"
    /\ rewrapped' = wrapText(wrapped)
    /\ wpc' = "rewrapped"
    /\ UNCHANGED <<text, wrapped, mvars>>

WrapNext == Wrap \/ Rewrap

WrapSpec == WrapInit /\ [][WrapNext]_vars

(***************************************************************************)
(* What the claims about main speak of                                     *)
(***************************************************************************)
ValidSourceNames == { "siva", "purohit", "adi", "san", "tej", "chinmay" }

\* the corpus was read and parsed, and the selection has been made or has failed
Selected ==
    /\ data.read /\ ~data.err /\ data.blob.wellFormed
    /\ pc \in { "chapter", "verse", "translation", "exit" }

BothPositive == chapterFlag > 0 /\ verseFlag > 0

\* the places in the corpus of the verses numbered (-c, -v)
Matches ==
    { i \in 1..Len(allSlokas.Slokas) :
        /\ allSlokas.Slokas[i].Chapter = chapterFlag
        /\ allSlokas.Slokas[i].Verse = verseFlag }

Least(S) == CHOOSE i \in S : \A j \in S : i <= j

Printed(out, kinds) == { i \in 1..Len(out) : out[i].k \in kinds }

VerseOutputKinds == { "line", "chapter-title", "chapter-translation", "header", "author" }

(***************************************************************************)
(* C1: with -c and -v both positive, the verse selected is the first verse *)
(* of the corpus numbered (-c, -v) and the header printed reads that       *)
(* chapter and verse; when no verse is numbered so, the program prints the *)
(* "not found" message and nothing else and exits with code 1.             *)
(***************************************************************************)
C1_ExactLookup ==
    (Selected /\ BothPositive) =>
        IF Matches # {}
        THEN /\ selectedSloka = allSlokas.Slokas[Least(Matches)]
             /\ pc = "exit" => exitCode = 0
             /\ pc \in { "translation", "exit" } =>
                    { stdout[i] : i \in Printed(stdout, { "header" }) }
                        = { Header(chapterFlag, verseFlag) }
        ELSE /\ pc = "exit"
             /\ exitCode = 1
             /\ stdout = << Message("not-found", chapterFlag, verseFlag, "") >>

\* the exact lookup has printed a verse whose number two verses of the corpus bear
C1_Witness ==
    /\ Selected /\ BothPositive
    /\ pc = "exit" /\ exitCode = 0
    /\ Cardinality(Matches) = 2
    /\ allSlokas.Slokas[1] # allSlokas.Slokas[2]

\* the places of main whose step nothing but the place guards: ShowChapterInfo,
\* ShowVerse and ShowTranslation
Unguarded == { "chapter", "verse", "translation" }

\* how many steps of main are left at most
StepsLeft(at) ==
    CASE at = "select"      -> 4
      [] at = "chapter"     -> 3
      [] at = "verse"       -> 2
      [] at = "translation" -> 1
      [] OTHER              -> 0

(***************************************************************************)
(* C2: when -c and -v are not both positive and the corpus has a verse,    *)
(* the run ends with exit code 0 and its header is that of a verse of the  *)
(* corpus; with no verse in the corpus it ends with exit code 1. It ends:  *)
(* until it has exited it is at a place whose step is never refused, and   *)
(* every step leaves fewer steps to take.                                  *)
(***************************************************************************)
C2_RandomSelection ==
    /\ [](( Selected /\ ~BothPositive ) =>
            IF Len(allSlokas.Slokas) = 0
            THEN pc = "exit" /\ exitCode = 1
            ELSE /\ selectedSloka \in { allSlokas.Slokas[i] : i \in 1..Len(allSlokas.Slokas) }
                 /\ pc # "exit" => pc \in Unguarded
                 /\ pc = "exit" =>
                        /\ exitCode = 0
                        /\ { stdout[h] : h \in Printed(stdout, { "header" }) }
                               = { Header(selectedSloka.Chapter, selectedSloka.Verse) })
    /\ [][( pc \in { "select", "chapter", "verse", "translation" } /\ ~BothPositive ) =>
             StepsLeft(pc') < StepsLeft(pc)]_vars

\* a run with only -v given has printed a verse of a corpus of two verses
C2_Witness ==
    /\ Selected /\ chapterFlag <= 0 /\ verseFlag > 0
    /\ pc = "exit" /\ exitCode = 0
    /\ Len(allSlokas.Slokas) = 2

(***************************************************************************)
(* C3: with a -translation value outside the six names, the program exits  *)
(* with code 1 from the validation, the dataset is never read or parsed    *)
(* and no line of verse output is printed; with a value inside them the    *)
(* validation goes on to reading the dataset.                              *)
(***************************************************************************)
C3_InvalidSourceStopsBeforeLoading ==
    /\ [](( pc \notin { "parse" } /\ exitCode # 2
            /\ translationSource \notin ValidSourceNames ) =>
            /\ pc \in { "validate", "exit" }
            /\ pc = "exit" => exitCode = 1
            /\ ~data.read
            /\ allSlokas = EmptyCorpus
            /\ Printed(stdout, VerseOutputKinds) = {})
    /\ [][ pc = "validate" =>
             IF translationSource \in ValidSourceNames
             THEN pc' = "read" /\ exitCode' = -1 /\ stdout' = stdout
             ELSE pc' = "exit" /\ exitCode' = 1 ]_vars

\* the program has exited from the validation of an unknown source
C3_Witness ==
    /\ translationSource = "gandhi"
    /\ pc = "exit" /\ exitCode = 1
    /\ stdout # <<>>

(***************************************************************************)
(* C4: each of the five failures (invalid translation source, dataset      *)
(* unreadable, dataset malformed, empty corpus, verse not found) writes    *)
(* its message to the error stream, not to the standard output, and the    *)
(* process ends with exit code 1.                                          *)
(***************************************************************************)
FailureMessages ==
    { "invalid-translation-source", "error-reading-embedded-data",
      "error-parsing-json", "no-slokas-found", "not-found" }

C4_ErrorsGoToTheErrorStream ==
    ( pc = "exit" /\ exitCode \notin { 0, 2 } ) =>
        /\ exitCode = 1
        /\ Printed(stderr, FailureMessages) # {}
        /\ Printed(stdout, FailureMessages) = {}

(***************************************************************************)
(* C5: the commentary and the author printed are those of the entry of the *)
(* selected verse that -translation names.                                 *)
(***************************************************************************)
EntryNamed(sloka, source) ==
    CASE source = "siva"    -> [ text |-> sloka.Siva.Et,    author |-> sloka.Siva.Author ]
      [] source = "purohit" -> [ text |-> sloka.Purohit.Et, author |-> sloka.Purohit.Author ]
      [] source = "adi"     -> [ text |-> sloka.Adi.Et,     author |-> sloka.Adi.Author ]
      [] source = "san"     -> [ text |-> sloka.San.Et,     author |-> sloka.San.Author ]
      [] source = "tej"     -> [ text |-> sloka.Tej.Ht,     author |-> sloka.Tej.Author ]
      [] source = "chinmay" -> [ text |-> sloka.Chinmay.Hc, author |-> sloka.Chinmay.Author ]

\* the last three lines of a finished run: the commentary, the author, a blank
PrintedCommentary == stdout[Len(stdout) - 2]
PrintedAuthor     == stdout[Len(stdout) - 1]

\* C5 as it stands: ... and whenever that commentary is not the empty string,
\* the wrapped text printed is not empty and the author follows it.
C5_NonEmptyCommentaryIsPrinted ==
    ( pc = "exit" /\ exitCode = 0 ) =>
        LET e == EntryNamed(selectedSloka, translationSource)
        IN  /\ PrintedCommentary.k = "line"
            /\ Fields(PrintedCommentary.s) = Fields(e.text)
            /\ PrintedAuthor = AuthorLine(e.author)
            /\ e.text # <<>> => PrintedCommentary.s # <<>>

\* C5 amended: ... and whenever that commentary has a character that is not
\* whitespace, the wrapped text printed is not empty and the author follows it.
C5_CommentaryWithWordsIsPrinted ==
    ( pc = "exit" /\ exitCode = 0 ) =>
        LET e == EntryNamed(selectedSloka, translationSource)
        IN  /\ PrintedCommentary.k = "line"
            /\ Fields(PrintedCommentary.s) = Fields(e.text)
            /\ PrintedAuthor = AuthorLine(e.author)
            /\ (\E i \in 1..Len(e.text) : ~IsSpace(e.text[i])) =>
                   PrintedCommentary.s # <<>>

\* a run with -translation purohit has printed a commentary that has words
C5_Witness ==
    /\ pc = "exit" /\ exitCode = 0
    /\ translationSource = "purohit"
    /\ Fields(selectedSloka.Purohit.Et) # <<>>
    /\ PrintedCommentary.s # <<>>

(***************************************************************************)
(* C6: with -chapter-info, when no chapter of the corpus has the selected  *)
(* verse's chapter number the run succeeds and prints what it prints       *)
(* without -chapter-info: no chapter line and no blank line of the block;  *)
(* when a chapter has it, the block of the first such chapter is printed   *)
(* once, before the verse's header.                                        *)
(***************************************************************************)
ChaptersNumbered(n) ==
    { i \in 1..Len(allSlokas.Chapters) : allSlokas.Chapters[i].ChapterNumber = n }

\* what a run prints for a verse without -chapter-info
PlainOutput(sloka, source) ==
    << Blank >> \o VerseLines(sloka)
    \o << Line(wrapText(EntryNamed(sloka, source).text)),
          AuthorLine(EntryNamed(sloka, source).author), Blank >>

C6_ChapterBlockOmittedWithoutMatch ==
    ( pc = "exit" /\ includeChapter /\ selectedSloka # ZeroSloka ) =>
        LET hits == ChaptersNumbered(selectedSloka.Chapter)
            head == Printed(stdout, { "header" })
        IN  /\ exitCode = 0
            /\ IF hits = {}
               THEN /\ Printed(stdout, { "chapter-title", "chapter-translation" }) = {}
                    /\ stdout[1] = Blank
                    /\ stdout[2] = Header(selectedSloka.Chapter, selectedSloka.Verse)
                    /\ stdout = PlainOutput(selectedSloka, translationSource)
               ELSE /\ Printed(stdout, { "chapter-title" }) = { 2 }
                    /\ stdout[2] = ChapterTitle(allSlokas.Chapters[Least(hits)].ChapterNumber,
                                                allSlokas.Chapters[Least(hits)].Name)
                    /\ head # {}
                    /\ \A h \in head : h > 2

\* a run with -chapter-info has printed a verse of chapter 2 from a corpus that
\* has chapters, none of them numbered 2
C6_Witness ==
    /\ pc = "exit" /\ exitCode = 0 /\ includeChapter
    /\ selectedSloka.Chapter = 2
    /\ allSlokas.Chapters # <<>>
    /\ ChaptersNumbered(2) = {}

(***************************************************************************)
(* C9: the command line -list-translators is accepted: the run does not    *)
(* end as an unknown flag does, and it lists the translators.              *)
(***************************************************************************)
C9_ListTranslatorsIsAccepted ==
    ( "list-translators" \in argv.other /\ pc = "exit" ) =>
        /\ exitCode = 0
        /\ Printed(stderr, { "flag-provided-but-not-defined" }) = {}
        /\ stdout # <<>>


(***************************************************************************)
(* Reading a wrapped string back: its lines, its words and where they end  *)
(***************************************************************************)
OutLines(s) == IF s = <<>> THEN <<>> ELSE Split(s, NL)

\* a line break stands between the i-th and the (i+1)-th word of s
BreakBetween(s, i) ==
    \E p \in (Nth(WordEnds(s), i) + 1)..(Nth(WordStarts(s), i + 1) - 1) : s[p] = NL

\* the length of the i-th word's line up to and including that word
LineLengthAt(s, i) ==
    LET e   == Nth(WordEnds(s), i)
        nls == {p \in 1..e : s[p] = NL}
        l   == IF nls = {} THEN 0 ELSE CHOOSE p \in nls : \A q \in nls : q <= p
    IN  e - l

EndsSentence(w) == Len(w) > 0 /\ w[Len(w)] \in SentenceEnd
BeginsCloser(w) == HasPrefix(w, ")") \/ HasPrefix(w, ",")

(***************************************************************************)
(* C7: a line break stands between consecutive words i and i+1 exactly     *)
(* when the width test fails for word i+1 on word i's line, or word i ENDS *)
(* in '.', '!' or '?' and word i+1 does not begin with ')' or ','; and     *)
(* "Hello world. Bye!" gives the two lines "Hello world." and "Bye!".      *)
(***************************************************************************)
C7_BreakExactlyAtWidthOrSentenceEnd ==
    wpc # "start" =>
        LET ws == Fields(text)
        IN  /\ \A i \in 1..(Len(ws) - 1) :
                   BreakBetween(wrapped, i) <=>
                       \/ LineLengthAt(wrapped, i) + RuneCount(ws[i + 1]) + 1 > displayWidth
                       \/ EndsSentence(ws[i]) /\ ~BeginsCloser(ws[i + 1])
            /\ text = Example =>
                   OutLines(wrapped) = << SubSeq(Example, 1, 12), SubSeq(Example, 14, 17) >>

(***************************************************************************)
(* C8: wrapping a wrapped text again gives the same text.                  *)
(***************************************************************************)
C8_RewrapIsIdempotent ==
    wpc = "rewrapped" => rewrapped = wrapped

\* a text whose wrapping has both a line break and a space has been wrapped twice
C8_Witness ==
    /\ wpc = "rewrapped"
    /\ \E p \in 1..Len(wrapped) : wrapped[p] = NL
    /\ \E p \in 1..Len(wrapped) : wrapped[p] = SP
    /\ wrapped # text

(***************************************************************************)
(* C10: every line of wrapText's result has at most displayWidth runes,    *)
(* unless it is one word that is itself longer; the result has no empty    *)
(* line and no leading or trailing whitespace, its words are the text's    *)
(* words in order, and a text without words gives the empty string.        *)
(***************************************************************************)
C10_LinesFitOrAreOneLongWord ==
    wpc # "start" =>
        LET ls == OutLines(wrapped)
        IN  /\ \A k \in 1..Len(ls) :
                   \/ RuneCount(ls[k]) <= displayWidth
                   \/ Fields(ls[k]) = <<ls[k]>>
            /\ \A k \in 1..Len(ls) : ls[k] # <<>>
            /\ wrapped # <<>> => ~IsSpace(wrapped[1]) /\ ~IsSpace(wrapped[Len(wrapped)])
            /\ Fields(wrapped) = Fields(text)
            /\ Fields(text) = <<>> => wrapped = <<>>

\* a line of exactly displayWidth runes holding two words, and a line that is
\* one word wider than the display
C10_Witness ==
    /\ wpc = "wrapped"
    /\ \E k \in 1..Len(OutLines(wrapped)) :
           /\ RuneCount(OutLines(wrapped)[k]) = displayWidth
           /\ Len(Fields(OutLines(wrapped)[k])) = 2
    /\ \E k \in 1..Len(OutLines(wrapped)) : RuneCount(OutLines(wrapped)[k]) > displayWidth

====
